---- MODULE Spec2Model ----
(***************************************************************************)
(* Model of the telephony-to-AI bridge: one socket session, its audio      *)
(* buffer, the periodic timer and the turn pipeline                        *)
(* (transcribe -> complete -> synthesize -> send).                         *)
(*                                                                         *)
(* The repository holds four versions of the server.  The model carries    *)
(* the version as the variable `variant`, fixed at connection time:        *)
(*   "websocket_server"  src/websocket_server.js   (WAV encoding, fallback)*)
(*   "part_000"          src/unnamed/part_000      (no error handling)     *)
(*   "part_001"          src/unnamed/part_001      (time-windowed, timer)  *)
(*   "part_002"          src/unnamed/part_002      (try/catch/finally)     *)
(*                                                                         *)
(* Audio bytes are identified by their arrival position: the k-th byte     *)
(* received on the session is byte k.  A chunk (one decoded media payload) *)
(* is the record [first, len]: bytes first .. first+len-1.  The buffer is  *)
(* a sequence of chunks, as in the code (an array of Buffers).             *)
(***************************************************************************)
EXTENDS Integers, Sequences, FiniteSets, TLC

VARIABLES
    variant,        \* which server version runs
    wsOpen,         \* the socket is open
    buffer,         \* audioChunks / buffer: sequence of chunks
    received,       \* number of audio bytes received so far
    msgCount,       \* number of inbound messages handled so far
    shape,          \* inbound history so far: "media*", "media*stop", "other"
    idle,           \* part_001: Date.now() - lastChunkTime, ms, capped
    interval,       \* part_001: the setInterval handle is active
    due,            \* part_001: ms until the interval is next due (< 0: late)
    turns,          \* sequence of turn pipeline executions
    extracted,      \* history of segment extractions
    files,          \* temporary files present in ./temp (named by turn)
    outbound,       \* events delivered on the socket
    unhandled       \* an exception left a message handler before any turn

vars == <<variant, wsOpen, buffer, received, msgCount, shape, idle,
          interval, due, turns, extracted, files, outbound, unhandled>>

----------------------------------------------------------------------------
(* Bounds of the exploration *)
MaxMsgs == 3
MaxTurns == 2

(* Program constants *)
INTERVAL == 3000
MIN_AUDIO_LENGTH == 8000

Variants == {"websocket_server", "part_000", "part_001", "part_002"}

(* Byte lengths of the decoded media payloads that are tried *)
ChunkLens == {7999, 8000}

(* The byte length of a payload as long as a whole segment of the          *)
(* size-windowed policy; tried by the full specification only              *)
LongChunkLens == {96000}

(* Text values returned by the transcription and completion services,     *)
(* as sequences of characters                                              *)
Texts == { <<>>, <<" ">>, <<"h", "i">> }
Replies == { <<>>, <<"o", "k">> }

(* Malformed media payloads that are tried, given by the number of their  *)
(* characters that belong to the base64 alphabet                           *)
NotBase64 == {0, 9}

(* Lengths of the synthesized audio body *)
TtsLens == {0, 2}

(* How an awaited external call settles: it throws (network error, non-2xx *)
(* response), or it returns a value                                        *)
Threw == [ok |-> FALSE, val |-> <<>>]
Returned(v) == [ok |-> TRUE, val |-> v]
TextOutcomes(S) == {Threw} \cup {Returned(v) : v \in S}
TtsOutcomes == {[ok |-> FALSE, len |-> 0]} \cup
               {[ok |-> TRUE, len |-> n] : n \in TtsLens}

----------------------------------------------------------------------------
(* Pure helpers *)

RECURSIVE ByteLen(_)
ByteLen(chunks) ==
    IF chunks = <<>> THEN 0
    ELSE Head(chunks).len + ByteLen(Tail(chunks))

RECURSIVE TrimStart(_)
TrimStart(s) ==
    IF s # <<>> /\ Head(s) = " " THEN TrimStart(Tail(s)) ELSE s

RECURSIVE TrimEnd(_)
TrimEnd(s) ==
    IF s # <<>> /\ s[Len(s)] = " " THEN TrimEnd(SubSeq(s, 1, Len(s) - 1)) ELSE s

Trim(s) == TrimEnd(TrimStart(s))

(* saveWavFile: the raw buffer is viewed as 16-bit samples,               *)
(* new Int16Array(buf, off, rawBuffer.length / 2); a fractional length is  *)
(* truncated, so the number of PCM bytes encoded is 2 * floor(len / 2)     *)
saveWavFile(rawLen) == 2 * (rawLen \div 2)

(* Buffer.from(payload, 'base64') does not validate: characters outside   *)
(* the alphabet are skipped and every four remaining ones give three       *)
(* bytes, so a payload with `chars` alphabet characters decodes to         *)
(* floor(3 * chars / 4) bytes                                              *)
Base64DecodedLen(chars) == (3 * chars) \div 4

(* Outbound events *)
MediaSynth(n) == [event |-> "media", payload |-> "synthesized", len |-> n]
MediaFallback == [event |-> "media", payload |-> "apology", len |-> 28]
StopInternal  == [event |-> "stop", payload |-> "internal_error", len |-> 0]

NoText == << "<unset>" >>

(* A turn pipeline execution at the moment its segment is extracted *)
NewTurn(seg, pcm, pc, calls) ==
    [ seg |-> seg, pcmLen |-> pcm, pc |-> pc, calls |-> calls,
      transcript |-> NoText, gptResponse |-> NoText, ttsLen |-> -1,
      sends |-> <<>>, result |-> "running", cause |-> "none" ]

InFlight(t) == turns[t].pc # "done"

(* ws.send on a socket that is not open either throws (older releases of  *)
(* ws) or drops the data (later releases); the version is not pinned in    *)
(* the sources, so each turn ending takes either outcome; on an open       *)
(* socket it never throws                                                  *)
SendOutcomes == IF wsOpen THEN {FALSE} ELSE BOOLEAN

----------------------------------------------------------------------------
Init ==
    /\ variant \in Variants
    /\ wsOpen = TRUE
    /\ buffer = <<>>
    /\ received = 0
    /\ msgCount = 0
    /\ shape = "media*"
    /\ idle = 0
    /\ interval = (variant = "part_001")
    /\ due = IF variant = "part_001" THEN INTERVAL ELSE 0
    /\ turns = <<>>
    /\ extracted = <<>>
    /\ files = {}
    /\ outbound = <<>>
    /\ unhandled = FALSE

(* a processBuffer that serializes turns: it returns without extracting    *)
(* while a turn of the session is in flight                                *)
processBuffer_OneAtATime(by) ==
    IF buffer = <<>> \/ \E t \in 1..Len(turns) : InFlight(t)
    THEN UNCHANGED <<buffer, turns, extracted, files>>
    ELSE /\ buffer' = <<>>
         /\ IF ByteLen(buffer) < MIN_AUDIO_LENGTH
            THEN /\ extracted' = Append(extracted,
                       [seg |-> buffer, turn |-> 0, by |-> by])
                 /\ UNCHANGED <<turns, files>>
            ELSE /\ Len(turns) < MaxTurns
                 /\ turns' = Append(turns,
                       NewTurn(buffer, ByteLen(buffer),
                               "transcribe", <<"transcribe">>))
                 /\ extracted' = Append(extracted,
                       [seg |-> buffer, turn |-> Len(turns) + 1, by |-> by])
                 /\ files' = files \cup {Len(turns) + 1}

(* part_001 processBuffer, up to its first await: extract the whole       *)
(* buffer, clear it, drop a short segment, else write the file and call    *)
(* the transcription service; `by` records what called it ("timer" or     *)
(* "stop")                                                                 *)
processBuffer(by) ==
    IF buffer = <<>>
    THEN UNCHANGED <<buffer, turns, extracted, files>>
    ELSE /\ buffer' = <<>>
         /\ IF ByteLen(buffer) < MIN_AUDIO_LENGTH
            THEN /\ extracted' = Append(extracted,
                       [seg |-> buffer, turn |-> 0, by |-> by])
                 /\ UNCHANGED <<turns, files>>
            ELSE /\ Len(turns) < MaxTurns
                 /\ turns' = Append(turns,
                       NewTurn(buffer, ByteLen(buffer),
                               "transcribe", <<"transcribe">>))
                 /\ extracted' = Append(extracted,
                       [seg |-> buffer, turn |-> Len(turns) + 1, by |-> by])
                 /\ files' = files \cup {Len(turns) + 1}

(* inbound {"event":"start"} *)
RecvStart ==
    /\ wsOpen
    /\ msgCount < MaxMsgs
    /\ msgCount' = msgCount + 1
    /\ shape' = "other"
    /\ UNCHANGED <<variant, unhandled, wsOpen, buffer, received, idle, interval, due,
                   turns, extracted, files, outbound>>

(* inbound {"event":"media"} whose payload decodes to n bytes *)
RecvMedia(n) ==
    /\ wsOpen
    /\ msgCount < MaxMsgs
    /\ msgCount' = msgCount + 1
    /\ shape' = IF shape = "media*" THEN "media*" ELSE "other"
    /\ buffer' = Append(buffer, [first |-> received + 1, len |-> n])
    /\ received' = received + n
    /\ idle' = 0
    /\ UNCHANGED <<variant, unhandled, wsOpen, interval, due, turns, extracted, files,
                   outbound>>

(* inbound message that is not valid JSON: JSON.parse throws; it is caught *)
(* in websocket_server and part_001, and leaves the handler in part_000    *)
(* and part_002, where JSON.parse is not inside a try                      *)
RecvNotJson ==
    /\ wsOpen
    /\ msgCount < MaxMsgs
    /\ msgCount' = msgCount + 1
    /\ shape' = "other"
    /\ unhandled' = (unhandled \/ variant \in {"part_000", "part_002"})
    /\ UNCHANGED <<variant, wsOpen, buffer, received, idle, interval, due,
                   turns, extracted, files, outbound>>

(* inbound {"event":"media"} without media or media.payload: reading      *)
(* parsed.media.payload, or Buffer.from(undefined), throws a TypeError,    *)
(* which no version catches                                                *)
RecvMediaNoPayload ==
    /\ wsOpen
    /\ msgCount < MaxMsgs
    /\ msgCount' = msgCount + 1
    /\ shape' = "other"
    /\ unhandled' = TRUE
    /\ UNCHANGED <<variant, wsOpen, buffer, received, idle, interval, due,
                   turns, extracted, files, outbound>>

(* inbound {"event":"media"} whose payload is not base64 and has `chars`   *)
(* characters of the base64 alphabet: it is decoded and buffered like any  *)
(* other payload                                                           *)
RecvMediaNotBase64(chars) ==
    /\ wsOpen
    /\ msgCount < MaxMsgs
    /\ msgCount' = msgCount + 1
    /\ shape' = "other"
    /\ buffer' = Append(buffer, [first |-> received + 1,
                                 len |-> Base64DecodedLen(chars)])
    /\ received' = received + Base64DecodedLen(chars)
    /\ idle' = 0
    /\ UNCHANGED <<variant, unhandled, wsOpen, interval, due, turns, extracted,
                   files, outbound>>

(* inbound {"event":"stop"}, up to the handler's first await *)
RecvStop ==
    /\ wsOpen
    /\ msgCount < MaxMsgs
    /\ msgCount' = msgCount + 1
    /\ shape' = IF shape = "media*" THEN "media*stop" ELSE "other"
    /\ IF variant = "part_001"
       THEN /\ interval' = FALSE
            /\ processBuffer("stop")
       ELSE /\ Len(turns) < MaxTurns
            /\ extracted' = Append(extracted,
                   [seg |-> buffer, turn |-> Len(turns) + 1, by |-> "stop"])
            /\ IF variant = "websocket_server"
               THEN /\ turns' = Append(turns,
                         NewTurn(buffer, saveWavFile(ByteLen(buffer)),
                                 "encode", <<>>))
                    /\ files' = files
               ELSE /\ turns' = Append(turns,
                         NewTurn(buffer, ByteLen(buffer),
                                 "transcribe", <<"transcribe">>))
                    /\ files' = files \cup {Len(turns) + 1}
            /\ UNCHANGED <<buffer, interval>>
    /\ UNCHANGED <<variant, unhandled, wsOpen, received, idle, due, outbound>>

(* a close handler that leaves the timer running *)
OnClose_KeepsTimer ==
    UNCHANGED interval

(* part_001 ws.on('close'): clearInterval *)
OnClose ==
    interval' = FALSE

(* the socket closes; only part_001 registers a close handler *)
Close ==
    /\ wsOpen
    /\ wsOpen' = FALSE
    /\ IF variant = "part_001" THEN OnClose ELSE UNCHANGED interval
    /\ UNCHANGED <<variant, unhandled, buffer, received, msgCount, shape, idle, due,
                   turns, extracted, files, outbound>>

(* Time passes until the interval is due, or is one millisecond overdue    *)
(* (timers never run early, they may run late).                            *)
(* Only the comparison with INTERVAL is read, so idle is capped above it.  *)
Advance ==
    /\ interval
    /\ due >= 0
    /\ \E d \in {due, due + 1} :
          /\ d > 0
          /\ due' = due - d
          /\ idle' = IF idle + d > INTERVAL THEN INTERVAL + 1 ELSE idle + d
    /\ UNCHANGED <<variant, unhandled, wsOpen, buffer, received, msgCount, shape,
                   interval, turns, extracted, files, outbound>>

(* part_001 setInterval callback; processBuffer() is not awaited *)
TimerFire ==
    /\ interval
    /\ due <= 0
    /\ due' = INTERVAL
    /\ IF idle > INTERVAL
       THEN UNCHANGED <<buffer, turns, extracted, files>>
       ELSE processBuffer("timer")
    /\ UNCHANGED <<variant, unhandled, wsOpen, received, msgCount, shape, idle,
                   interval, outbound>>

----------------------------------------------------------------------------
(* The ways a turn ends.  An ending is the record                          *)
(*   sends  : the events passed to ws.send, in order                       *)
(*   result : "ok" | "silent" | "failed" | "escaped" (exception leaves     *)
(*            the handler as a rejected promise)                           *)
(*   cause  : what ended the turn (the err.message that is logged)         *)
(*   unlink : the temporary file is removed                                *)
(*   reset  : the session buffer is reset (audioChunks = [])               *)

(* a catch block that only sends the stop event, without the fallback     *)
(* media before it                                                         *)
Catch_StopOnly(cause, sendThrows) ==
    [ sends  |-> <<StopInternal>>,
      result |-> IF sendThrows THEN "escaped" ELSE "failed",
      cause  |-> cause, unlink |-> TRUE, reset |-> variant # "part_001" ]

(* An exception with message `cause` is thrown inside the pipeline *)
Catch(cause, sendThrows) ==
    CASE variant = "websocket_server" ->
           \* catch: fallback media in an inner try, then stop outside it;
           \* finally: unlink if the file exists, audioChunks = []
           [ sends  |-> <<MediaFallback, StopInternal>>,
             result |-> IF sendThrows THEN "escaped" ELSE "failed",
             cause  |-> cause, unlink |-> TRUE, reset |-> TRUE ]
      [] variant = "part_001" ->
           \* catch: log only; finally: unlinkSync
           [ sends  |-> <<>>, result |-> "failed",
             cause  |-> cause, unlink |-> TRUE, reset |-> FALSE ]
      [] variant = "part_002" ->
           \* catch: stop event; finally: unlinkSync, audioChunks = []
           [ sends  |-> <<StopInternal>>,
             result |-> IF sendThrows THEN "escaped" ELSE "failed",
             cause  |-> cause, unlink |-> TRUE, reset |-> TRUE ]
      [] variant = "part_000" ->
           \* no try: the rest of the handler, cleanup included, is skipped
           [ sends  |-> <<>>, result |-> "escaped",
             cause  |-> cause, unlink |-> FALSE, reset |-> FALSE ]

(* The synthesized audio is sent: ws.send, then the cleanup *)
SendAudio(n, sendThrows) ==
    IF sendThrows
    THEN [Catch("send error", sendThrows)
             EXCEPT !.sends = <<MediaSynth(n)>> \o @]
    ELSE [ sends  |-> <<MediaSynth(n)>>, result |-> "ok", cause |-> "none",
           unlink |-> TRUE, reset |-> variant # "part_001" ]

(* part_001: `if (!transcript.trim()) return;` inside try/finally *)
SilentReturn ==
    [ sends |-> <<>>, result |-> "silent", cause |-> "blank transcript",
      unlink |-> TRUE, reset |-> FALSE ]

(* Turn t, with its fields updated to rec, ends with ending e.  The text   *)
(* locals of the handler (transcript, reply) go out of scope; what the     *)
(* turn sent and why it ended stay on record.                              *)
EndTurn(t, rec, e) ==
    /\ turns' = [turns EXCEPT ![t] =
                    [rec EXCEPT !.pc = "done",
                              !.transcript = NoText,
                              !.gptResponse = NoText,
                              !.sends = @ \o e.sends,
                              !.result = e.result,
                              !.cause = e.cause]]
    /\ outbound' = IF wsOpen
                   THEN outbound \o [i \in 1..Len(e.sends) |->
                                        [ev |-> e.sends[i], turn |-> t]]
                   ELSE outbound
    /\ files' = IF e.unlink THEN files \ {t} ELSE files
    /\ buffer' = IF e.reset THEN <<>> ELSE buffer

(* An exception with message `cause` is thrown in turn t *)
Throw(t, rec, cause) ==
    \E th \in SendOutcomes : EndTurn(t, rec, Catch(cause, th))

(* Turn t, with its fields updated to rec, goes on to its next call *)
CallNext(t, rec, pc) ==
    /\ turns' = [turns EXCEPT ![t] =
                    [rec EXCEPT !.pc = pc, !.calls = Append(@, pc)]]
    /\ UNCHANGED <<outbound, files, buffer>>

(* `!text || text.trim().length === 0` *)
IsBlank(text) == text = <<>> \/ Len(Trim(text)) = 0

(* websocket_server: `await saveWavFile(rawBuffer, filename)` settles *)
EncodeDone(t, ok) ==
    /\ t \in 1..Len(turns)
    /\ turns[t].pc = "encode"
    /\ IF ok
       THEN /\ turns' = [turns EXCEPT ![t].pc = "transcribe",
                                      ![t].calls = Append(@, "transcribe")]
            /\ files' = files \cup {t}
            /\ UNCHANGED <<outbound, buffer>>
       ELSE Throw(t, turns[t], "encode error")
    /\ UNCHANGED <<variant, unhandled, wsOpen, received, msgCount, shape, idle,
                   interval, due, extracted>>

(* `await transcribeAudio(filename)` settles: ok with a text, or throws *)
TranscribeDone(t, r) ==
    /\ t \in 1..Len(turns)
    /\ turns[t].pc = "transcribe"
    /\ LET text == r.val
           rec == [turns[t] EXCEPT !.transcript = text] IN
       IF ~r.ok
       THEN Throw(t, turns[t], "transcribe error")
       ELSE CASE variant = "websocket_server" ->
                   IF IsBlank(text)
                   THEN Throw(t, turns[t], "Empty transcription")
                   ELSE CallNext(t, rec, "complete")
              [] variant = "part_001" ->
                   IF Trim(text) = <<>> THEN EndTurn(t, turns[t], SilentReturn)
                   ELSE CallNext(t, rec, "complete")
              [] OTHER -> CallNext(t, rec, "complete")
    /\ UNCHANGED <<variant, unhandled, wsOpen, received, msgCount, shape, idle,
                   interval, due, extracted>>

(* `await generateGPTResponse(transcript)` settles *)
CompleteDone(t, r) ==
    /\ t \in 1..Len(turns)
    /\ turns[t].pc = "complete"
    /\ LET text == r.val
           rec == [turns[t] EXCEPT !.gptResponse = text] IN
       IF ~r.ok
       THEN Throw(t, turns[t], "complete error")
       ELSE IF variant = "websocket_server" /\ IsBlank(text)
            THEN Throw(t, turns[t], "Empty GPT response")
            ELSE CallNext(t, rec, "synthesize")
    /\ UNCHANGED <<variant, unhandled, wsOpen, received, msgCount, shape, idle,
                   interval, due, extracted>>

(* `await synthesizeSpeech(reply)` settles with a body of n bytes *)
SynthesizeDone(t, r) ==
    /\ t \in 1..Len(turns)
    /\ turns[t].pc = "synthesize"
    /\ IF ~r.ok
       THEN Throw(t, turns[t], "synthesize error")
       ELSE LET rec == [turns[t] EXCEPT !.ttsLen = r.len] IN
            IF variant = "websocket_server" /\ r.len = 0
            THEN Throw(t, rec, "Invalid TTS audio")
            ELSE \E th \in SendOutcomes :
                    EndTurn(t, rec, SendAudio(r.len, th))
    /\ UNCHANGED <<variant, unhandled, wsOpen, received, msgCount, shape, idle,
                   interval, due, extracted>>

Next ==
    \/ RecvStart
    \/ \E n \in ChunkLens \cup LongChunkLens : RecvMedia(n)
    \/ RecvStop
    \/ RecvNotJson
    \/ RecvMediaNoPayload
    \/ \E c \in NotBase64 : RecvMediaNotBase64(c)
    \/ Close
    \/ Advance
    \/ TimerFire
    \/ \E t \in 1..MaxTurns, ok \in BOOLEAN : EncodeDone(t, ok)
    \/ \E t \in 1..MaxTurns, r \in TextOutcomes(Texts) : TranscribeDone(t, r)
    \/ \E t \in 1..MaxTurns, r \in TextOutcomes(Replies) : CompleteDone(t, r)
    \/ \E t \in 1..MaxTurns, r \in TtsOutcomes : SynthesizeDone(t, r)

Spec == Init /\ [][Next]_vars

(* The time-windowed server alone (src/unnamed/part_001), receiving        *)
(* well-formed messages                                                    *)
InitTimer == Init /\ variant = "part_001"

NextTimer ==
    \/ RecvStart
    \/ \E n \in ChunkLens : RecvMedia(n)
    \/ RecvStop
    \/ Close
    \/ Advance
    \/ TimerFire
    \/ \E t \in 1..MaxTurns, r \in TextOutcomes(Texts) : TranscribeDone(t, r)
    \/ \E t \in 1..MaxTurns, r \in TextOutcomes(Replies) : CompleteDone(t, r)
    \/ \E t \in 1..MaxTurns, r \in TtsOutcomes : SynthesizeDone(t, r)

SpecTimer == InitTimer /\ [][NextTimer]_vars

(* The server of src/websocket_server.js alone; it has no timer *)
InitWav == Init /\ variant = "websocket_server"

NextWav ==
    \/ RecvStart
    \/ \E n \in ChunkLens : RecvMedia(n)
    \/ RecvStop
    \/ RecvNotJson
    \/ RecvMediaNoPayload
    \/ \E c \in NotBase64 : RecvMediaNotBase64(c)
    \/ Close
    \/ \E t \in 1..MaxTurns, ok \in BOOLEAN : EncodeDone(t, ok)
    \/ \E t \in 1..MaxTurns, r \in TextOutcomes(Texts) : TranscribeDone(t, r)
    \/ \E t \in 1..MaxTurns, r \in TextOutcomes(Replies) : CompleteDone(t, r)
    \/ \E t \in 1..MaxTurns, r \in TtsOutcomes : SynthesizeDone(t, r)

SpecWav == InitWav /\ [][NextWav]_vars

----------------------------------------------------------------------------
(* Vocabulary of the properties.  Each property is stated for the server *)
(* versions its claim is about.                                            *)

Turns == 1..Len(turns)

Called(t, service) == \E i \in 1..Len(turns[t].calls) : turns[t].calls[i] = service

Sent(t, ev) == \E i \in 1..Len(turns[t].sends) : turns[t].sends[i] = ev

(* two chunks share a byte *)
Overlap(c, d) ==
    /\ c.len > 0 /\ d.len > 0
    /\ c.first <= d.first + d.len - 1
    /\ d.first <= c.first + c.len - 1

(* the first n bytes of a sequence of chunks *)
RECURSIVE Take(_, _)
Take(chunks, n) ==
    IF chunks = <<>> \/ n <= 0 THEN <<>>
    ELSE IF Head(chunks).len <= n
         THEN <<Head(chunks)>> \o Take(Tail(chunks), n - Head(chunks).len)
         ELSE << [Head(chunks) EXCEPT !.len = n] >>

(* the chunks are exactly the bytes from .. to, in order, each once *)
RECURSIVE Tiles(_, _, _)
Tiles(chunks, from, to) ==
    IF chunks = <<>> THEN from = to + 1
    ELSE /\ Head(chunks).first = from
         /\ Tiles(Tail(chunks), from + Head(chunks).len, to)

(* the bytes of extraction e that reach the transcription step; a segment  *)
(* dropped as too short (turn 0) is counted as is                          *)
Handed(e) ==
    IF e.turn = 0 THEN e.seg ELSE Take(e.seg, turns[e.turn].pcmLen)

RECURSIVE HandedUpTo(_)
HandedUpTo(k) ==
    IF k = 0 THEN <<>> ELSE HandedUpTo(k - 1) \o Handed(extracted[k])

----------------------------------------------------------------------------
(* C1: after media messages followed by one stop (and no other message),   *)
(* once every turn has reached the transcription step, the bytes handed to *)
(* transcription, taken in extraction order, are exactly the received      *)
(* bytes 1 .. received, each once and in arrival order; only the segments  *)
(* dropped as shorter than MIN_AUDIO_LENGTH are exempt.                    *)
C1_TranscribedBytesAreTheReceivedBytes ==
    ( /\ variant \in {"websocket_server", "part_001"}
      /\ shape = "media*stop"
      /\ \A t \in Turns : Called(t, "transcribe") )
    => Tiles(HandedUpTo(Len(extracted)), 1, received)

(* C2: no received byte is handed to the turn pipeline in two different    *)
(* turns: the segments of two turns never share a byte.                    *)
C2_NoByteInTwoTurns ==
    \A t1 \in Turns, t2 \in Turns :
        (variant # "part_000" /\ t1 # t2) =>
            \A i \in 1..Len(turns[t1].seg), j \in 1..Len(turns[t2].seg) :
                ~Overlap(turns[t1].seg[i], turns[t2].seg[j])

(* C3: when a turn finishes, every chunk that is in the session buffer and *)
(* is not part of that turn's segment (it arrived while the turn was in    *)
(* flight) is still in the buffer afterwards.                              *)
C3_MediaDuringTurnStaysBuffered ==
    [][ \A t \in Turns :
          ( /\ variant \in {"websocket_server", "part_001"}
            /\ InFlight(t) /\ turns'[t].pc = "done" ) =>
              \A i \in 1..Len(buffer) :
                  (\A j \in 1..Len(turns[t].seg) : turns[t].seg[j] # buffer[i])
                  => \E k \in 1..Len(buffer') : buffer'[k] = buffer[i] ]_vars

(* C4: at most one turn pipeline execution is in flight at any time.       *)
C4_AtMostOneTurnInFlight ==
    variant \in {"websocket_server", "part_001"} =>
    Cardinality({t \in Turns : InFlight(t)}) <= 1

(* C5: a turn whose transcription result is empty or whitespace-only calls *)
(* neither the completion nor the synthesis service.                       *)
C5_BlankTranscriptCallsNothingMore ==
    \A t \in Turns :
        (variant # "part_000" /\ IsBlank(turns[t].transcript)) =>
            ~Called(t, "complete") /\ ~Called(t, "synthesize")

(* C6: a turn whose transcription result is whitespace-only ends silently: *)
(* it passes no media and no stop event to the socket.                     *)
C6_BlankTranscriptEndsSilently ==
    \A t \in Turns :
        ( /\ variant \in {"websocket_server", "part_001"}
          /\ \/ IsBlank(turns[t].transcript)
             \/ turns[t].cause \in {"Empty transcription", "blank transcript"} )
        => /\ turns[t].sends = <<>>
           /\ \A i \in 1..Len(outbound) : outbound[i].turn # t

(* C7: a turn whose completion result is empty never calls the synthesis   *)
(* service, and it ends as a reported failure: a fallback media or a stop  *)
(* with reason internal_error is sent.                                     *)
C7_EmptyReplyIsAReportedFailure ==
    \A t \in Turns :
        variant \in {"websocket_server", "part_001"} =>
        /\ turns[t].gptResponse = <<>> => ~Called(t, "synthesize")
        /\ turns[t].cause = "Empty GPT response" =>
              /\ ~Called(t, "synthesize")
              /\ Sent(t, MediaFallback) \/ Sent(t, StopInternal)

(* C8: a finished turn whose synthesis returned a zero-length body sent    *)
(* exactly the fallback media and then the stop with reason                *)
(* internal_error, and no media carrying synthesized audio.                *)
C8_EmptyAudioSendsFallbackThenStop ==
    \A t \in Turns :
        ( /\ variant \in {"websocket_server", "part_001"}
          /\ turns[t].pc = "done" /\ turns[t].ttsLen = 0 ) =>
            turns[t].sends = <<MediaFallback, StopInternal>>

(* C9: the temporary file of a finished turn no longer exists, and the     *)
(* file of a turn still in flight (past the write) has not been removed.   *)
C9_TempFileRemovedWhenTurnEnds ==
    \A t \in Turns :
        variant # "part_002" =>
        /\ turns[t].pc = "done" => t \notin files
        /\ (InFlight(t) /\ Called(t, "transcribe")) => t \in files

(* C10: once the socket is closed the periodic timer is stopped, and from  *)
(* then on no segment is extracted from the buffer and no turn is started. *)
C10_NothingExtractedAfterClose ==
    [][ ~wsOpen' =>
          /\ ~interval'
          /\ ~wsOpen => /\ extracted' = extracted
                        /\ Len(turns') = Len(turns)
                        /\ buffer' = buffer ]_vars

(* C10 happens: the socket closed while a turn was in flight and a         *)
(* segment long enough to be processed was waiting in the buffer           *)
C10_Witness ==
    /\ variant = "part_001"
    /\ ~wsOpen
    /\ \E t \in Turns : InFlight(t)
    /\ ByteLen(buffer) >= MIN_AUDIO_LENGTH
    /\ idle <= INTERVAL

(* total number of bytes in the first k extracted segments *)
RECURSIVE ExtractedBytes(_)
ExtractedBytes(k) ==
    IF k = 0 THEN 0 ELSE ExtractedBytes(k - 1) + ByteLen(extracted[k].seg)

(* C11: a segment is extracted as soon as the buffer holds 96,000 bytes,   *)
(* so the buffer never holds that many, no extracted segment is longer,    *)
(* and the bytes extracted so far plus the bytes left in the buffer are    *)
(* the bytes received.                                                     *)
C11_SegmentsOfWindowSizeConserveBytes ==
    variant \in {"websocket_server", "part_001"} =>
        /\ ByteLen(buffer) < 96000
        /\ \A k \in 1..Len(extracted) : ByteLen(extracted[k].seg) <= 96000
        /\ ExtractedBytes(Len(extracted)) + ByteLen(buffer) = received

(* C12: a segment extracted by stop is run through the turn pipeline if    *)
(* and only if it is non-empty, whatever its size; a segment extracted by  *)
(* the timer that is shorter than MIN_AUDIO_LENGTH is not.                 *)
C12_StopFlushesAnyTailTimerDropsShort ==
    variant \in {"websocket_server", "part_001"} =>
        \A k \in 1..Len(extracted) :
            LET e == extracted[k] IN
            /\ e.by = "stop" => (e.turn # 0 <=> ByteLen(e.seg) > 0)
            /\ (e.by = "timer" /\ ByteLen(e.seg) < MIN_AUDIO_LENGTH)
                   => e.turn = 0

(* C13: a message that is not valid JSON is dropped: the step that handles *)
(* it changes neither the buffer nor anything else of the session, sends   *)
(* nothing, starts no turn, and no exception leaves the handler.           *)
C13_InvalidJsonIsDropped ==
    [][ ( /\ variant \in {"websocket_server", "part_001", "part_002"}
          /\ RecvNotJson ) =>
            /\ unhandled' = unhandled
            /\ UNCHANGED <<buffer, received, idle, interval, due, turns,
                           extracted, files, outbound>> ]_vars

(* C14: a media message with a malformed payload (not base64, or media or  *)
(* media.payload missing) is swallowed: the step that handles it leaves    *)
(* the buffer unchanged, starts no turn, sends nothing, and no exception   *)
(* leaves the handler.                                                     *)
C14_MalformedMediaIsSwallowed ==
    [][ ( /\ variant \in {"websocket_server", "part_001"}
          /\ \/ RecvMediaNoPayload
             \/ \E c \in NotBase64 : RecvMediaNotBase64(c) ) =>
            /\ unhandled' = unhandled
            /\ UNCHANGED <<buffer, received, turns, extracted, files,
                           outbound>> ]_vars

(* C15: no failure inside a turn leaves the turn as an uncaught exception  *)
(* or a rejected promise: no turn ends with its exception escaped.         *)
C15_NoTurnFailureEscapes ==
    \A t \in Turns :
        variant \in {"websocket_server", "part_001"} =>
            turns[t].result # "escaped"

(* C16: at every timer tick at which the buffer holds at least             *)
(* MIN_AUDIO_LENGTH bytes, the whole buffer is extracted as one segment, a *)
(* turn is started for it and the buffer is empty afterwards, whether or   *)
(* not a media message arrived during the preceding interval.              *)
C16_EveryTickExtractsReadyBuffer ==
    [][ ( /\ variant = "part_001"
          /\ TimerFire
          /\ ByteLen(buffer) >= MIN_AUDIO_LENGTH ) =>
            /\ buffer' = <<>>
            /\ Len(turns') = Len(turns) + 1
            /\ turns'[Len(turns')].seg = buffer
            /\ turns'[Len(turns')].pc # "done" ]_vars

(* the external services, in the order the pipeline calls them *)
Services == <<"transcribe", "complete", "synthesize">>

IsPrefix(s, t) == Len(s) <= Len(t) /\ s = SubSeq(t, 1, Len(s))

(* some turn has ended in a failure *)
SomeTurnFailed ==
    \E t \in Turns : turns[t].result \in {"failed", "escaped"}

(* C17: within a turn each service is called at most once, in the order    *)
(* transcribe, complete, synthesize, and each only after the previous call *)
(* returned; no step of a turn closes the socket; and after a failed turn  *)
(* a stop that follows later media starts a new turn.                      *)
C17_ServicesOnceInOrderAndSessionGoesOn ==
    [][ (variant \in {"websocket_server", "part_001"}) =>
          /\ \A t \in 1..Len(turns') : IsPrefix(turns'[t].calls, Services)
          /\ \A t \in Turns :
                turns'[t].calls # turns[t].calls =>
                    /\ turns'[t].calls = Append(turns[t].calls, turns'[t].pc)
                    /\ turns'[t].pc = "complete" =>
                           turns'[t].transcript # NoText
                    /\ turns'[t].pc = "synthesize" =>
                           turns'[t].gptResponse # NoText
          /\ (wsOpen /\ ~wsOpen') => turns' = turns /\ outbound' = outbound
          /\ (RecvStop /\ SomeTurnFailed /\ wsOpen /\ buffer # <<>>) =>
                 Len(turns') = Len(turns) + 1 ]_vars

(* the events of turn t that were delivered on the socket, in order *)
RECURSIVE DeliveredUpTo(_, _)
DeliveredUpTo(t, k) ==
    IF k = 0 THEN <<>>
    ELSE IF outbound[k].turn = t
         THEN Append(DeliveredUpTo(t, k - 1), outbound[k].ev)
         ELSE DeliveredUpTo(t, k - 1)

Delivered(t) == DeliveredUpTo(t, Len(outbound))

(* C18: in the timer-driven version a tick does not wait for a turn in     *)
(* flight: with fresh audio of at least MIN_AUDIO_LENGTH bytes it starts a *)
(* second turn beside it, and a turn that ends on an open socket has its   *)
(* events delivered at once, behind whatever was delivered before, even if *)
(* an earlier-extracted turn is still in flight.  Hence the execution of   *)
(* C18_Witness: the later-extracted segment's media is delivered first.    *)
C18_TickStartsTurnBesideTurnInFlight ==
    [][ /\ ( /\ variant = "part_001"
             /\ TimerFire
             /\ idle <= INTERVAL
             /\ ByteLen(buffer) >= MIN_AUDIO_LENGTH
             /\ \E t \in Turns : InFlight(t) ) =>
               /\ Len(turns') = Len(turns) + 1
               /\ Cardinality({t \in 1..Len(turns') :
                                  turns'[t].pc # "done"}) >= 2
        /\ \A t \in Turns :
             ( /\ variant = "part_001"
               /\ InFlight(t) /\ turns'[t].pc = "done" /\ wsOpen ) =>
                 outbound' = outbound \o
                     [i \in 1..Len(turns'[t].sends) |->
                         [ev |-> turns'[t].sends[i], turn |-> t]] ]_vars

(* C18 happens: two segments were extracted by the timer, and the media of *)
(* the later-extracted one was delivered before the media of the earlier   *)
C18_Witness ==
    /\ variant = "part_001"
    /\ \A k \in 1..Len(extracted) : extracted[k].by = "timer"
    /\ \E i \in 1..Len(outbound), j \in 1..Len(outbound) :
          /\ i < j
          /\ outbound[i].turn > outbound[j].turn
          /\ outbound[i].ev.event = "media"
          /\ outbound[j].ev.event = "media"

(* C19: in websocket_server.js a turn in flight has delivered nothing, and *)
(* a finished turn has delivered exactly one of two sequences: the single  *)
(* media event with its synthesized audio, or the fallback media followed  *)
(* by the stop with reason internal_error; it has delivered nothing only   *)
(* if the socket is closed.                                                *)
C19_OneOfTwoOutboundSequences ==
    \A t \in Turns :
        variant = "websocket_server" =>
            /\ InFlight(t) => Delivered(t) = <<>>
            /\ turns[t].pc = "done" =>
                  \/ /\ turns[t].ttsLen > 0
                     /\ Delivered(t) = <<MediaSynth(turns[t].ttsLen)>>
                  \/ Delivered(t) = <<MediaFallback, StopInternal>>
                  \/ Delivered(t) = <<>> /\ ~wsOpen

(* C19 happens: on an open socket one turn has answered with synthesized   *)
(* audio and another has failed                                            *)
C19_Witness ==
    /\ variant = "websocket_server"
    /\ wsOpen
    /\ \E t \in Turns, u \in Turns :
          /\ turns[t].result = "ok"
          /\ Delivered(t) = <<MediaSynth(turns[t].ttsLen)>>
          /\ turns[u].result = "failed"
          /\ Delivered(u) = <<MediaFallback, StopInternal>>

====
